---- MODULE Spec2Model ----
(***************************************************************************)
(* StorySoFar Reader: the App component (document session, page progress,  *)
(* chat turns), the upload screen and the document parser, the Reader's    *)
(* navigation, wheel and touch handlers, the chat input guard and the      *)
(* generation service that builds the request and consumes the stream.     *)
(*                                                                         *)
(* A text is a sequence of atoms (short strings); string concatenation is  *)
(* sequence concatenation, so slicing, joining, trimming and number        *)
(* formatting are computed on the atoms as the code computes them on       *)
(* characters.  The Message.timestamp field is written and never read by   *)
(* any code of the repository; it is left out of the turn records.         *)
(***************************************************************************)
EXTENDS Integers, Sequences, FiniteSets, TLC

\* ------------------------------------------------------------------ bounds
MaxPages == 2      \* pages of the longest document
MaxCalls == 2      \* invocations of handleSendMessage in one behaviour
MaxChunks == 2     \* non-empty chunks the provider yields on one stream
MaxTime == 3700    \* the last clock reading of a wheel or touch event

\* --------------------------------------------------------------- text kit
Min(a, b) == IF a < b THEN a ELSE b

Max(a, b) == IF a > b THEN a ELSE b

DigitChars == <<"0", "1", "2", "3", "4", "5", "6", "7", "8", "9">>

IsDigit(c) == \E d \in 1..10 : DigitChars[d] = c

DigitVal(c) == (CHOOSE d \in 1..10 : DigitChars[d] = c) - 1

IsSpace(c) == c \in {" ", "\n", "\t"}

NaN == -1000000

RECURSIVE ToStr(_)
\* Number.prototype.toString(), radix 10, on integers
ToStr(n) ==
  IF n < 0 THEN <<"-">> \o ToStr(0 - n)
  ELSE IF n < 10 THEN <<DigitChars[n + 1]>>
  ELSE ToStr(n \div 10) \o <<DigitChars[(n % 10) + 1]>>

RECURSIVE DigitsValue(_, _)
\* value of the longest digit prefix of s, acc is the value read so far
DigitsValue(s, acc) ==
  IF s = <<>> \/ ~IsDigit(Head(s)) THEN acc
  ELSE DigitsValue(Tail(s), 10 * acc + DigitVal(Head(s)))

RECURSIVE TrimStart(_)
TrimStart(s) == IF s # <<>> /\ IsSpace(Head(s)) THEN TrimStart(Tail(s)) ELSE s

RECURSIVE TrimEnd(_)
TrimEnd(s) ==
  IF s # <<>> /\ IsSpace(s[Len(s)]) THEN TrimEnd(SubSeq(s, 1, Len(s) - 1)) ELSE s

\* String.prototype.trim()
Trim(s) == TrimEnd(TrimStart(s))

\* ParseInt with a fault: every number is read as 0
ParseIntZero(s) ==
  IF TrimStart(s) = <<>> \/ ~IsDigit(Head(TrimStart(s))) THEN NaN ELSE 0

\* parseInt(s, 10): leading white space, an optional sign, then digits;
\* NaN when no digit follows
ParseInt(s) ==
  LET t == TrimStart(s)
      neg == t # <<>> /\ Head(t) = "-"
      u == IF t # <<>> /\ Head(t) \in {"-", "+"} THEN Tail(t) ELSE t
  IN IF u = <<>> \/ ~IsDigit(Head(u)) THEN NaN
     ELSE IF neg THEN 0 - DigitsValue(u, 0) ELSE DigitsValue(u, 0)

RECURSIVE Join(_, _)
\* Array.prototype.join(sep) on an array of texts
Join(parts, sep) ==
  IF parts = <<>> THEN <<>>
  ELSE IF Len(parts) = 1 THEN parts[1]
  ELSE parts[1] \o sep \o Join(Tail(parts), sep)

\* Array.prototype.slice(-n)
SliceLast(s, n) == SubSeq(s, Max(1, Len(s) - n + 1), Len(s))

\* t occurs in s as a contiguous run of atoms
Occurs(t, s) ==
  \E k \in 0..(Len(s) - Len(t)) : SubSeq(s, k + 1, k + Len(t)) = t

\* String.prototype.endsWith(t)
EndsWith(s, t) == Len(t) <= Len(s) /\ SubSeq(s, Len(s) - Len(t) + 1, Len(s)) = t

\* String.prototype.replace(t, r) with a string pattern: the first
\* occurrence of t is replaced
ReplaceFirst(s, t, r) ==
  IF ~Occurs(t, s) THEN s
  ELSE LET k == CHOOSE j \in 0..(Len(s) - Len(t)) :
                  /\ SubSeq(s, j + 1, j + Len(t)) = t
                  /\ \A i \in 0..(j - 1) : SubSeq(s, i + 1, i + Len(t)) # t
       IN SubSeq(s, 1, k) \o r \o SubSeq(s, k + Len(t) + 1, Len(s))

RECURSIVE CollapseSpaces(_)
\* String.prototype.replace(/\s+/g, ' ')
CollapseSpaces(s) ==
  IF s = <<>> THEN <<>>
  ELSE IF IsSpace(Head(s))
    THEN <<" ">> \o CollapseSpaces(TrimStart(s))
    ELSE <<Head(s)>> \o CollapseSpaces(Tail(s))

\* String.prototype.split("/").pop()
LastSegment(path) ==
  LET cuts == {k \in 1..Len(path) : path[k] = "/"}
      last == IF cuts = {} THEN 0 ELSE CHOOSE k \in cuts : \A j \in cuts : j <= k
  IN SubSeq(path, last + 1, Len(path))

\* String.prototype.replace(/\.[^/.]+$/, ""): a final extension is cut off
StripExtension(s) ==
  LET dots == {k \in 1..(Len(s) - 1) :
                 /\ s[k] = "."
                 /\ \A j \in (k + 1)..Len(s) : s[j] \notin {"/", "."}}
  IN IF dots = {} THEN s
     ELSE SubSeq(s, 1, (CHOOSE k \in dots : \A j \in dots : k <= j) - 1)

\* the atoms of member paths in the order of their UTF-16 code units
AtomOrder == <<".", "/", "1", "2", "3", "OEBPS", "htm", "html", "txt", "xhtml">>

AtomRank(c) == CHOOSE k \in 1..Len(AtomOrder) : AtomOrder[k] = c

RECURSIVE Precedes(_, _)
\* s < t in the order Array.prototype.sort() uses without a comparator
Precedes(s, t) ==
  IF t = <<>> THEN FALSE
  ELSE IF s = <<>> THEN TRUE
  ELSE IF Head(s) # Head(t) THEN AtomRank(Head(s)) < AtomRank(Head(t))
  ELSE Precedes(Tail(s), Tail(t))

RECURSIVE SortPaths(_)
\* Array.prototype.sort() on an array of distinct paths
SortPaths(paths) ==
  IF paths = {} THEN <<>>
  ELSE LET first == CHOOSE x \in paths : \A y \in paths \ {x} : Precedes(x, y)
       IN <<first>> \o SortPaths(paths \ {first})

\* -------------------------------------------------------------- documents
PageWords == <<"A", "B", "C", "D", "E">>

\* A file stands for its bytes by what the libraries read out of them: the
\* container that is really inside (pdf, zip or junk), the message of the
\* error the library raises when it cannot read the container, the text runs
\* of each PDF page, the PDF outline tree, and the members of the zip.
PdfFile(name, type, pageItems, outline) ==
  [name |-> name, type |-> type, container |-> "pdf", message |-> <<>>,
   pageItems |-> pageItems, outline |-> outline, members |-> <<>>]

EpubFile(name, type, members) ==
  [name |-> name, type |-> type, container |-> "zip", message |-> <<>>,
   pageItems |-> <<>>, outline |-> <<>>, members |-> members]

JunkFile(name, type, message) ==
  [name |-> name, type |-> type, container |-> "junk", message |-> message,
   pageItems |-> <<>>, outline |-> <<>>, members |-> <<>>]

\* an outline node: dest is "page" when the destination resolves to the page
\* index page, "broken" when getPageIndex rejects, "none" when the node has
\* no destination array; url tells an external link
OutlineNode(title, dest, page, url, items) ==
  [title |-> title, dest |-> dest, page |-> page, url |-> url, items |-> items]

\* a member of the zip: its path, the text content and the serialized markup
\* of its body, the number of img elements and the text of its title element
Member(path, text, images, title) ==
  [path |-> path, text |-> text, images |-> images, title |-> title,
   body |-> <<"<body ">> \o path \o <<">">>]

\* the files the user can submit
Files ==
  { PdfFile(<<"a", ".pdf">>, "application/pdf",
            [i \in 1..MaxPages |-> <<<<PageWords[i]>>>>],
            <<OutlineNode(<<"End">>, "page", MaxPages - 1, FALSE, <<>>)>>),
    EpubFile(<<"b", ".epub">>, "application/epub+zip",
             <<Member(<<"1", ".", "xhtml">>, <<"X">>, 0, <<"x">>)>>) }

\* the files of a reader who also submits a shorter document under a name
\* used before, a file of a kind that is not supported, and a PDF that the
\* library cannot read
UploadFiles ==
  { PdfFile(<<"a", ".pdf">>, "application/pdf",
            [i \in 1..MaxPages |-> <<<<PageWords[i]>>>>],
            <<OutlineNode(<<"End">>, "page", MaxPages - 1, FALSE, <<>>)>>),
    PdfFile(<<"a", ".pdf">>, "application/pdf", <<<<<<"S">>>>>>, <<>>),
    JunkFile(<<"c", ".txt">>, "text/plain", <<>>),
    JunkFile(<<"d", ".pdf">>, "application/pdf", <<>>) }

\* ---- the files the parser is run on
ParserNames == {<<"x", ".pdf">>, <<"x", ".epub">>, <<"x", ".txt">>}

ParserTypes == {"application/pdf", "application/epub+zip", "text/plain", ""}

\* PDF pages as the text runs of each page: no page; one page with two
\* runs; a page of white space and runs, and a page without runs
PdfPageSets ==
  { <<>>,
    << <<<<"A">>, <<"B">>>> >>,
    << <<<<" ">>, <<"A", " ", "\n">>, <<"B">>>>, <<>> >> }

\* a leaf of each kind: resolves to page 0, getPageIndex rejects, no
\* destination, external link
OutlineLeaves ==
  { OutlineNode(<<"p">>, "page", 0, FALSE, <<>>),
    OutlineNode(<<"b">>, "broken", 0, FALSE, <<>>),
    OutlineNode(<<"n">>, "none", 0, FALSE, <<>>),
    OutlineNode(<<"u">>, "none", 0, TRUE, <<>>) }

OutlineKids ==
  { <<>>,
    <<OutlineNode(<<"k">>, "page", 0, FALSE, <<>>)>>,
    <<OutlineNode(<<"j">>, "broken", 0, FALSE,
                  <<OutlineNode(<<"g">>, "page", 0, FALSE, <<>>)>>)>> }

OutlineTops ==
  {[leaf EXCEPT !.items = kids] : leaf \in OutlineLeaves, kids \in OutlineKids}

Outlines ==
  {<<>>} \cup {<<top>> : top \in OutlineTops}
         \cup {<<top, OutlineNode(<<"z">>, "page", 0, FALSE, <<>>)>> : top \in OutlineTops}

\* the outline with its node z retargeted to the last of n pages
RetargetLast(o, n) ==
  [k \in DOMAIN o |-> IF o[k].title = <<"z">> THEN [o[k] EXCEPT !.page = n - 1] ELSE o[k]]

\* zip members, not in path order: text; white space only; an image and a
\* blank title; not markup; text and a path without a stem
MemberPool ==
  << Member(<<"2", ".", "xhtml">>, <<"X">>, 0, <<"t">>),
     Member(<<"1", ".", "html">>, <<" ">>, 0, <<>>),
     Member(<<"OEBPS", "/", "3", ".", "htm">>, <<>>, 1, <<" ">>),
     Member(<<"1", ".", "txt">>, <<"N">>, 0, <<>>),
     Member(<<".", "xhtml">>, <<" ", "Y", " ", "\n", "Z">>, 0, <<>>) >>

RECURSIVE PoolAt(_, _)
\* the members of the pool at the indices in ks, from index k on
PoolAt(ks, k) ==
  IF k > Len(MemberPool) THEN <<>>
  ELSE (IF k \in ks THEN <<MemberPool[k]>> ELSE <<>>) \o PoolAt(ks, k + 1)

ParserFiles ==
  {PdfFile(n, t, << <<<<"A">>>> >>, <<>>) : n \in ParserNames, t \in ParserTypes}
  \cup {EpubFile(n, t, PoolAt({1}, 1)) : n \in ParserNames, t \in ParserTypes}
  \cup {JunkFile(n, t, <<"unreadable">>) : n \in ParserNames, t \in ParserTypes}
  \cup {PdfFile(<<"x", ".pdf">>, "application/pdf", ps, RetargetLast(o, Len(ps))) :
          ps \in PdfPageSets \ {<<>>}, o \in Outlines}
  \cup {PdfFile(<<"x", ".pdf">>, "application/pdf", <<>>, <<>>)}
  \cup {EpubFile(<<"x", ".epub">>, "application/epub+zip", PoolAt(ks, 1)) :
          ks \in SUBSET (1..Len(MemberPool))}

\* ------------------------------------------------------------ documentUtils
Resolved(b) == [ok |-> TRUE, book |-> b]

Rejected(message) == [ok |-> FALSE, message |-> message]

RECURSIVE ProcessOutlineKeepAll(_, _)
\* ProcessOutline with a fault: a node that resolves to no page is entered
\* with the initial index -1
ProcessOutlineKeepAll(items, level) ==
  IF items = <<>> THEN <<>>
  ELSE LET item == Head(items)
           rest == ProcessOutlineKeepAll(Tail(items), level)
       IN IF item.dest # "page" /\ item.dest # "broken" /\ item.url
            THEN rest
            ELSE <<[title |-> item.title,
                    page |-> IF item.dest = "page" THEN item.page ELSE -1,
                    level |-> level]>>
                 \o ProcessOutlineKeepAll(item.items, level + 1)
                 \o rest

RECURSIVE ProcessOutline(_, _)
\* processOutline: the entries pushed to toc, in push order
ProcessOutline(items, level) ==
  IF items = <<>> THEN <<>>
  ELSE LET item == Head(items)
           rest == ProcessOutline(Tail(items), level)
       IN IF item.dest # "page" /\ item.dest # "broken" /\ item.url
            THEN rest
            ELSE (IF item.dest = "page"
                    THEN <<[title |-> item.title, page |-> item.page, level |-> level]>>
                    ELSE <<>>)
                 \o ProcessOutline(item.items, level + 1)
                 \o rest

PdfPageText(items) == Trim(CollapseSpaces(Join(items, <<" ">>)))

ParsePdf(f) ==
  IF f.container # "pdf" THEN Rejected(f.message)
  ELSE LET pages == [i \in 1..Len(f.pageItems) |-> PdfPageText(f.pageItems[i])]
       IN Resolved([title |-> ReplaceFirst(f.name, <<".pdf">>, <<>>),
                    fileType |-> "pdf",
                    content |-> pages,
                    renderData |-> <<"ArrayBuffer">>,
                    totalPages |-> Len(pages),
                    fileName |-> f.name,
                    toc |-> ProcessOutline(f.outline, 0)])

IsMarkupPath(path) ==
  \/ EndsWith(path, <<".", "html">>)
  \/ EndsWith(path, <<".", "xhtml">>)
  \/ EndsWith(path, <<".", "htm">>)

\* HasContent with a fault: images are not looked at
HasContentTextOnly(m) == Len(Trim(m.text)) > 0

\* a member becomes a page when it has text or an image
HasContent(m) == Len(Trim(m.text)) > 0 \/ m.images > 0

\* MemberTitle with a fault: the chapter number is the 0-based page index
MemberTitleZeroBased(m, pageIndex) ==
  LET title == Trim(m.title)
      stem == StripExtension(LastSegment(m.path))
  IN IF title # <<>> THEN title
     ELSE IF stem # <<>> THEN stem
     ELSE <<"Chapter ">> \o ToStr(pageIndex)

MemberTitle(m, pageIndex) ==
  LET title == Trim(m.title)
      stem == StripExtension(LastSegment(m.path))
  IN IF title # <<>> THEN title
     ELSE IF stem # <<>> THEN stem
     ELSE <<"Chapter ">> \o ToStr(pageIndex + 1)

\* the markup members of the zip in the order of the loop
MarkupMembers(f) ==
  LET files == SortPaths({f.members[k].path : k \in
                            {j \in DOMAIN f.members : IsMarkupPath(f.members[j].path)}})
      member(path) == f.members[CHOOSE k \in DOMAIN f.members : f.members[k].path = path]
  IN [i \in 1..Len(files) |-> member(files[i])]

\* HtmlPages with a fault: every markup member yields a render unit
HtmlPagesOfAll(ms) == [i \in 1..Len(ms) |-> ms[i].body]

\* htmlPages after the loop over the members ms
HtmlPages(ms) ==
  LET kept == SelectSeq(ms, HasContent)
  IN [i \in 1..Len(kept) |-> kept[i].body]

\* textPages after the loop over the members ms
TextPages(ms) ==
  LET kept == SelectSeq(ms, HasContent)
  IN [i \in 1..Len(kept) |-> Trim(CollapseSpaces(kept[i].text))]

ParseEpub(f) ==
  IF f.container # "zip" THEN Rejected(f.message)
  ELSE LET kept == SelectSeq(MarkupMembers(f), HasContent)
           textPages == TextPages(MarkupMembers(f))
           htmlPages == HtmlPages(MarkupMembers(f))
           toc == [i \in 1..Len(kept) |->
                     [title |-> MemberTitle(kept[i], i - 1), page |-> i - 1, level |-> 0]]
       IN Resolved([title |-> ReplaceFirst(f.name, <<".epub">>, <<>>),
                    fileType |-> "epub",
                    content |-> IF Len(textPages) > 0 THEN textPages
                                ELSE <<<<"No text content found.">>>>,
                    renderData |-> IF Len(htmlPages) > 0 THEN htmlPages
                                   ELSE <<<<"<p>No content found.</p>">>>>,
                    totalPages |-> IF Len(htmlPages) > 0 THEN Len(htmlPages) ELSE 1,
                    fileName |-> f.name,
                    toc |-> toc])

UnsupportedText == <<"Unsupported file type. Please upload PDF or EPUB.">>

\* what the promise of parseFile(f) settles to
ParseFile(f) ==
  IF f.type = "application/pdf" THEN ParsePdf(f)
  ELSE IF f.type = "application/epub+zip" \/ EndsWith(f.name, <<".epub">>) THEN ParseEpub(f)
  ELSE Rejected(UnsupportedText)

FileNames == {f.name : f \in Files \cup UploadFiles \cup ParserFiles}

\* ------------------------------------------------------------------ state
VARIABLES
  book,          \* App state: <<>> (null) or <<Book>>
  currentPage,   \* App state: 0-based page index
  messages,      \* App state: the turn list
  isAiLoading,   \* App state: loading flag handed to ChatInterface
  storage,       \* localStorage: file name -> stored text, <<>> when unset
  apiKey,        \* process.env.API_KEY is set
  now,           \* the latest value Date.now() is known to have reached
  calls,         \* the invocations of handleSendMessage, in call order
  parsing,       \* the handleFile invocations that await parseFile, in call order
  isLoading,     \* FileUpload state: a file is being processed
  error,         \* FileUpload state: the message shown, <<>> (null) when none
  viewed,        \* page indices the Reader has displayed since the document was opened
  lastNavigationTime,  \* Reader ref: clock reading of the last wheel or touch page turn
  touchStartY,   \* Reader ref: <<>> (null) or <<clientY>> of the touch that started
  twin           \* a second run of the program: the same events on a document
                 \* that differs in its last page

vars == <<book, currentPage, messages, isAiLoading, storage, apiKey, now,
          calls, parsing, isLoading, error, viewed, lastNavigationTime, touchStartY,
          twin>>

\* the refs of the Reader that the wheel and touch handlers write
readerRefs == <<lastNavigationTime, touchStartY>>

HasBook == book # <<>>

TheBook == book[1]

\* ------------------------------------------------------------- chat turns
WelcomeText(title) ==
  <<"Hello! I'm ready to read **">> \o title \o <<"** with you. \n\nI'll track your progress page by page. Feel free to ask me questions, but remember: I only know what *you* have read so far!">>

SorryText == <<"Sorry, I encountered an error answering that.">>

TroubleText ==
  <<"I'm having trouble connecting to my knowledge base right now. Please try again.">>

WelcomeMsg(title) ==
  [id |-> <<"welcome">>, role |-> "assistant", content |-> WelcomeText(title)]

UserMsg(t, content) == [id |-> ToStr(t), role |-> "user", content |-> content]

\* PlaceholderMsg with a fault: the turn is created without the streaming mark
PlaceholderMsgNotStreaming(t) ==
  [id |-> ToStr(t + 1), role |-> "assistant", content |-> <<>>]

PlaceholderMsg(t) ==
  [id |-> ToStr(t + 1), role |-> "assistant", content |-> <<>>, isStreaming |-> TRUE]

ErrorMsg(t) == [id |-> ToStr(t), role |-> "assistant", content |-> SorryText]

\* { ...m, content: text }
WithContent(m, text) == [m EXCEPT !.content = text]

\* { ...m, isStreaming: false }: the field is added when m has none
WithStreamingOff(m) ==
  [k \in (DOMAIN m) \cup {"isStreaming"} |->
     IF k = "isStreaming" THEN FALSE ELSE m[k]]

IsStreamingTurn(m) == "isStreaming" \in DOMAIN m /\ m.isStreaming

\* OnChunk with a fault: the snapshot is appended to the turn's text; the
\* snapshot is written to every assistant turn
OnChunkAppend(msgs, assistantMsgId, textChunk) ==
  [k \in 1..Len(msgs) |->
     IF msgs[k].id = assistantMsgId
       THEN WithContent(msgs[k], msgs[k].content \o textChunk) ELSE msgs[k]]

OnChunkEveryAssistant(msgs, assistantMsgId, textChunk) ==
  [k \in 1..Len(msgs) |->
     IF msgs[k].role = "assistant" THEN WithContent(msgs[k], textChunk) ELSE msgs[k]]

\* the onChunk callback's state update
OnChunk(msgs, assistantMsgId, textChunk) ==
  [k \in 1..Len(msgs) |->
     IF msgs[k].id = assistantMsgId THEN WithContent(msgs[k], textChunk) ELSE msgs[k]]

\* FinishStreaming with a fault: the turn is left as it is
FinishStreamingSkipped(msgs, assistantMsgId) == msgs

\* the state update after generateAssistantResponse has resolved
FinishStreaming(msgs, assistantMsgId) ==
  [k \in 1..Len(msgs) |->
     IF msgs[k].id = assistantMsgId THEN WithStreamingOff(msgs[k]) ELSE msgs[k]]

\* ------------------------------------------------------ generation request
HistoryWindow == 6

\* PagesRead with a fault: no slice; a slice that ends one page late
PagesReadWholeBook(bookContext, page) == bookContext

PagesReadOneMore(bookContext, page) ==
  SubSeq(bookContext, 1, Min(page + 2, Len(bookContext)))

PagesRead(bookContext, page) ==
  SubSeq(bookContext, 1, Min(page + 1, Len(bookContext)))

\* ContextText with a fault: the blocks are labelled from 0
ContextTextZeroBased(bookContext, page) ==
  LET pagesRead == PagesRead(bookContext, page)
  IN Join([idx \in 1..Len(pagesRead) |->
             <<"[Page ">> \o ToStr(idx - 1) \o <<"]: ">> \o pagesRead[idx]],
          <<"\n\n">>)

ContextText(bookContext, page) ==
  LET pagesRead == PagesRead(bookContext, page)
  IN Join([idx \in 1..Len(pagesRead) |->
             <<"[Page ">> \o ToStr(idx) \o <<"]: ">> \o pagesRead[idx]],
          <<"\n\n">>)

\* the template literal of the system instruction around contextText
InstructionText(page, contextText) ==
  <<"You are a strict No-Spoiler Reading Assistant. The user has strictly read ONLY pages 1 to ">>
  \o ToStr(page + 1)
  \o <<". Here is the content they have read so far: \"\"\"">>
  \o contextText
  \o <<"\"\"\" YOUR RULES: 1..6. Maintain a helpful, literary tone.">>

SystemInstruction(bookContext, page) ==
  InstructionText(page, ContextText(bookContext, page))

RoleLabel(m) == IF m.role = "user" THEN "User" ELSE "Assistant"

RecentMessages(currentHistory) ==
  LET kept == SliceLast(SelectSeq(currentHistory, LAMBDA m : m.role # "system"),
                        HistoryWindow)
  IN Join([k \in 1..Len(kept) |-> <<RoleLabel(kept[k]), ": ">> \o kept[k].content],
          <<"\n">>)

FinalPrompt(currentHistory) ==
  <<"\n">> \o RecentMessages(currentHistory)
  \o <<"\n", "User", ": ">> \o currentHistory[Len(currentHistory)].content
  \o <<"\n", "Assistant", ":", "\n">>

\* the argument of ai.models.generateContentStream
BuildRequest(currentHistory, bookContext, page) ==
  [systemInstruction |-> SystemInstruction(bookContext, page),
   finalPrompt |-> FinalPrompt(currentHistory)]

\* -------------------------------------------------------------- the inputs
ChatInputs == {<<" ">>, <<"q">>}

PageInputs == {<<>>, <<"x">>, <<"0">>, <<"1">>, <<"2">>, <<"9">>}

ChunkTexts == {<<>>, <<"H">>}

\* the first clock reading of a behaviour, in milliseconds: Date.now() is
\* far above the debounce time of the Reader
StartTime == 1209

\* the part of the second run's state that can differ from the first run's:
\* the pages of its document, its turn list, and the request and the
\* accumulated text of its call in flight
NoTwin == [content |-> <<>>, messages |-> <<>>, request |-> <<>>, fullText |-> <<>>]

\* ------------------------------------------------------------------- Init
Init ==
  /\ book = <<>>
  /\ currentPage = 0
  /\ messages = <<>>
  /\ isAiLoading = FALSE
  /\ storage = [n \in FileNames |-> <<>>]
  /\ apiKey \in BOOLEAN
  /\ now = StartTime
  /\ calls = <<>>
  /\ parsing = <<>>
  /\ isLoading = FALSE
  /\ error = <<>>
  /\ viewed = {}
  /\ lastNavigationTime = 0
  /\ touchStartY = <<>>
  /\ twin = NoTwin

\* parseFile throws for f before it awaits anything
ThrowsAtOnce(f) ==
  /\ f.type # "application/pdf"
  /\ f.type # "application/epub+zip"
  /\ ~EndsWith(f.name, <<".epub">>)

\* a handleSendMessage whose generateAssistantResponse promise is rejected
\* resumes in its catch block before any other event is dispatched
NoRejectedCall == \A i \in DOMAIN calls : calls[i].status # "rejected"

\* so does a handleFile whose parseFile promise is rejected from the start
NoMicrotask ==
  /\ NoRejectedCall
  /\ \A k \in DOMAIN parsing : ~ThrowsAtOnce(parsing[k].file)

InFlight(c) == c.status \in {"connecting", "streaming"}

\* PersistProgress with a fault: the page is stored under every key
PersistProgressEveryKey(b, page) ==
  IF b = <<>> THEN storage ELSE [n \in DOMAIN storage |-> ToStr(page)]

\* the effect "Persist Page Progress", run after a render that changed
\* currentPage or book
PersistProgress(b, page) ==
  IF b = <<>> THEN storage
  ELSE [storage EXCEPT ![b[1].fileName] = ToStr(page)]

\* ------------------------------------------------------------------ clock
\* Date.now() is read when a turn is created.  Between two consecutive
\* readings the clock stands still or advances by one unit.  A longer pause
\* only moves the new ids away from the ids in the list: with an API key the
\* reading after a provider round trip can already be new to the list, and
\* without one no turn is ever looked up by its id.
Elapsed == {0, 1}

ClockReadings == {now + e : e \in Elapsed}

\* ------------------------------------------------------------- FileUpload
GenericErrorText ==
  <<"Failed to parse file. Please ensure it is a valid PDF or EPUB.">>

\* the files under parse
ParsingFiles == {parsing[k].file : k \in DOMAIN parsing}

\* a later submission exists: latest records which invocation was started
\* last, the code keeps no such record
Superseded(ps) == [k \in DOMAIN ps |-> [ps[k] EXCEPT !.latest = FALSE]]

\* handleFile up to its await: the drop zone and the file input are shown
\* while no book is open, the drop zone also while an earlier file is being
\* parsed.  A file is submitted again only after its own parse has ended.
HandleFile(f) ==
  /\ NoMicrotask
  /\ ~HasBook
  /\ f \notin ParsingFiles
  /\ error' = <<>>
  /\ isLoading' = TRUE
  /\ parsing' = Append(Superseded(parsing),
                        [file |-> f, mounted |-> TRUE, latest |-> TRUE])
  /\ UNCHANGED <<book, currentPage, messages, isAiLoading, storage, apiKey,
                 now, calls, viewed, readerRefs>>

\* the state updates of handleBookLoaded and the progress effect that
\* follows the render
HandleBookLoaded(loadedBook) ==
  LET savedPage == storage[loadedBook.fileName]
      page == IF savedPage # <<>> THEN ParseInt(savedPage) ELSE 0
  IN /\ book' = <<loadedBook>>
     /\ currentPage' = page
     /\ messages' = <<WelcomeMsg(loadedBook.title)>>
     /\ storage' = PersistProgress(<<loadedBook>>, page)
     /\ viewed' = {page}

\* parsing without its k-th invocation
Without(k) == SubSeq(parsing, 1, k - 1) \o SubSeq(parsing, k + 1, Len(parsing))

\* the FileUpload that started the invocations is unmounted: what they set
\* on it afterwards is lost
Unmounted(ps) == [k \in DOMAIN ps |-> [ps[k] EXCEPT !.mounted = FALSE]]

\* handleFile after parseFile has settled.  A book replaces FileUpload by
\* the Reader; a FileUpload mounted later starts with its initial state.
ParseDone(f) ==
  /\ NoRejectedCall
  /\ \A k \in DOMAIN parsing : ThrowsAtOnce(parsing[k].file) => parsing[k].file = f
  /\ \E k \in DOMAIN parsing :
       /\ parsing[k].file = f
       /\ LET r == ParseFile(f)
          IN IF r.ok
               THEN /\ HandleBookLoaded(r.book)
                    /\ parsing' = Unmounted(Without(k))
                    /\ isLoading' = FALSE
                    /\ error' = <<>>
               ELSE /\ parsing' = Without(k)
                    /\ IF parsing[k].mounted
                         THEN /\ error' = IF r.message # <<>> THEN r.message
                                           ELSE GenericErrorText
                              /\ isLoading' = FALSE
                         ELSE UNCHANGED <<error, isLoading>>
                    /\ UNCHANGED <<book, currentPage, messages, storage, viewed>>
  /\ UNCHANGED <<isAiLoading, apiKey, now, calls, readerRefs>>

\* ----------------------------------------------------------------- Reader
\* onPageChange: setCurrentPage, the render and the progress effect
OnPageChange(newPage) ==
  /\ currentPage' = newPage
  /\ storage' = PersistProgress(book, newPage)
  /\ viewed' = viewed \cup {newPage}
  /\ UNCHANGED <<book, messages, isAiLoading, apiKey, calls, parsing,
                 isLoading, error>>

\* navigateToPage called from a handler that reads no clock and writes no ref
NavigateToPage(newPage) ==
  /\ OnPageChange(newPage)
  /\ UNCHANGED <<now, readerRefs>>

HandlePrev ==
  /\ NoMicrotask
  /\ HasBook
  /\ IF currentPage > 0 THEN NavigateToPage(currentPage - 1) ELSE UNCHANGED vars

HandleNext ==
  /\ NoMicrotask
  /\ HasBook
  /\ IF currentPage < TheBook.totalPages - 1
       THEN NavigateToPage(currentPage + 1) ELSE UNCHANGED vars

HandlePageSubmit(pageInput) ==
  /\ NoMicrotask
  /\ HasBook
  /\ LET pageNum == ParseInt(pageInput)
     IN IF pageNum # NaN /\ pageNum >= 1 /\ pageNum <= TheBook.totalPages
          THEN NavigateToPage(pageNum - 1) ELSE UNCHANGED vars

HandleTocClick(k) ==
  /\ NoMicrotask
  /\ HasBook
  /\ k \in DOMAIN TheBook.toc
  /\ NavigateToPage(TheBook.toc[k].page)

HandleBackToHome ==
  /\ NoMicrotask
  /\ HasBook
  /\ book' = <<>>
  /\ messages' = <<>>
  /\ viewed' = {}
  /\ lastNavigationTime' = 0
  /\ touchStartY' = <<>>
  /\ UNCHANGED <<currentPage, isAiLoading, storage, apiKey, now, calls, parsing,
                 isLoading, error>>

\* ---- page turns by wheel and touch
DebounceTime == 1200

WheelThreshold == 50

TouchThreshold == 100

Abs(n) == IF n < 0 THEN 0 - n ELSE n

\* the scroll geometry of the content element: the page fits, the top of a
\* long page, its middle, 3 pixels above its bottom, its bottom
ScrollStates ==
  { [scrollTop |-> 0, scrollHeight |-> 100, clientHeight |-> 100],
    [scrollTop |-> 0, scrollHeight |-> 300, clientHeight |-> 100],
    [scrollTop |-> 100, scrollHeight |-> 300, clientHeight |-> 100],
    [scrollTop |-> 197, scrollHeight |-> 300, clientHeight |-> 100],
    [scrollTop |-> 200, scrollHeight |-> 300, clientHeight |-> 100] }

IsAtBottom(el) == Abs(el.scrollHeight - el.clientHeight - el.scrollTop) < 5

IsAtTop(el) == el.scrollTop = 0

WheelDeltas == {-51, -50, 0, 50, 51}

TouchYs == {0, 100, 101}

\* the time between the latest clock reading and a wheel or touch event
EventElapsed == {0, DebounceTime, DebounceTime + 1}

\* HandleWheel with a fault: the forward turn does not look at the page count
HandleWheelUnguarded(el, deltaY, t) ==
  /\ NoMicrotask
  /\ HasBook
  /\ t <= MaxTime
  /\ now' = t
  /\ IF t - lastNavigationTime <= DebounceTime
       THEN UNCHANGED <<book, currentPage, messages, isAiLoading, storage, apiKey,
                        calls, parsing, isLoading, error, viewed, readerRefs>>
       ELSE IF IsAtBottom(el) /\ deltaY > WheelThreshold
         THEN /\ lastNavigationTime' = t
              /\ OnPageChange(currentPage + 1)
              /\ UNCHANGED touchStartY
         ELSE IF IsAtTop(el) /\ deltaY < 0 - WheelThreshold /\ currentPage > 0
           THEN /\ lastNavigationTime' = t
                /\ OnPageChange(currentPage - 1)
                /\ UNCHANGED touchStartY
           ELSE UNCHANGED <<book, currentPage, messages, isAiLoading, storage, apiKey,
                            calls, parsing, isLoading, error, viewed, readerRefs>>

\* handleWheel; the content element exists while the Reader is mounted
HandleWheel(el, deltaY, t) ==
  /\ NoMicrotask
  /\ HasBook
  /\ t <= MaxTime
  /\ now' = t
  /\ IF t - lastNavigationTime <= DebounceTime
       THEN UNCHANGED <<book, currentPage, messages, isAiLoading, storage, apiKey,
                        calls, parsing, isLoading, error, viewed, readerRefs>>
       ELSE IF IsAtBottom(el) /\ deltaY > WheelThreshold
                 /\ currentPage < TheBook.totalPages - 1
         THEN /\ lastNavigationTime' = t
              /\ OnPageChange(currentPage + 1)
              /\ UNCHANGED touchStartY
         ELSE IF IsAtTop(el) /\ deltaY < 0 - WheelThreshold /\ currentPage > 0
           THEN /\ lastNavigationTime' = t
                /\ OnPageChange(currentPage - 1)
                /\ UNCHANGED touchStartY
           ELSE UNCHANGED <<book, currentPage, messages, isAiLoading, storage, apiKey,
                            calls, parsing, isLoading, error, viewed, readerRefs>>

HandleTouchStart(clientY) ==
  /\ NoMicrotask
  /\ HasBook
  /\ touchStartY' = <<clientY>>
  /\ UNCHANGED <<book, currentPage, messages, isAiLoading, storage, apiKey, now,
                 calls, parsing, isLoading, error, viewed, lastNavigationTime>>

\* handleTouchMove: without a started touch it returns before the clock is read
HandleTouchMove(el, currentY, t) ==
  /\ NoMicrotask
  /\ HasBook
  /\ IF touchStartY = <<>> THEN UNCHANGED vars
     ELSE LET deltaY == touchStartY[1] - currentY
          IN /\ t <= MaxTime
             /\ now' = t
             /\ IF t - lastNavigationTime <= DebounceTime
                  THEN UNCHANGED <<book, currentPage, messages, isAiLoading, storage,
                                   apiKey, calls, parsing, isLoading, error, viewed,
                                   readerRefs>>
                  ELSE IF IsAtBottom(el) /\ deltaY > TouchThreshold
                            /\ currentPage < TheBook.totalPages - 1
                    THEN /\ lastNavigationTime' = t
                         /\ OnPageChange(currentPage + 1)
                         /\ touchStartY' = <<>>
                    ELSE IF IsAtTop(el) /\ deltaY < 0 - TouchThreshold /\ currentPage > 0
                      THEN /\ lastNavigationTime' = t
                           /\ OnPageChange(currentPage - 1)
                           /\ touchStartY' = <<>>
                      ELSE UNCHANGED <<book, currentPage, messages, isAiLoading, storage,
                                       apiKey, calls, parsing, isLoading, error, viewed,
                                       readerRefs>>

HandleTouchEnd ==
  /\ NoMicrotask
  /\ HasBook
  /\ touchStartY' = <<>>
  /\ UNCHANGED <<book, currentPage, messages, isAiLoading, storage, apiKey, now,
                 calls, parsing, isLoading, error, viewed, lastNavigationTime>>

\* ------------------------------------------------------------------- chat
\* CanSubmit with a fault: the loading flag is not looked at
CanSubmitWhileLoading(inputValue) == Trim(inputValue) # <<>>

\* the guard of ChatInterface.handleSubmit
CanSubmit(inputValue) == Trim(inputValue) # <<>> /\ ~isAiLoading

\* the arguments handleSendMessage passes to generateAssistantResponse
CallHistory(msgs, userMsg) == msgs \o <<userMsg>>

\* CallPage with a fault: the page of a document's first render is passed
CallPageStale(page) == Min(page, 0)

CallPage(page) == page

\* handleSendMessage up to its await.  t is the clock reading of this
\* synchronous block: it names the user turn and, plus one, the assistant
\* turn.  With an API key generateAssistantResponse runs up to the provider
\* call, without one getClient throws and the returned promise is rejected.
HandleSendMessage(content, t) ==
  LET userMsg == UserMsg(t, content)
      placeholder == PlaceholderMsg(t)
      history == CallHistory(messages, userMsg)
      page == CallPage(currentPage)
  IN /\ messages' = messages \o <<userMsg, placeholder>>
     /\ isAiLoading' = TRUE
     /\ now' = t
     /\ calls' = Append(calls,
          [assistantMsgId |-> placeholder.id,
           status |-> IF apiKey THEN "connecting" ELSE "rejected",
           bookContext |-> TheBook.content,
           currentPage |-> page,
           request |-> IF apiKey
                         THEN <<BuildRequest(history, TheBook.content, page)>>
                         ELSE <<>>,
           fullText |-> <<>>,
           sentAt |-> t])
     /\ UNCHANGED <<book, currentPage, storage, apiKey, parsing, isLoading, error, viewed, readerRefs>>

\* ChatInterface.handleSubmit; the chat panel is mounted while a book is open
HandleSubmit(inputValue) ==
  /\ NoMicrotask
  /\ HasBook
  /\ Len(calls) < MaxCalls
  /\ IF CanSubmit(inputValue)
       THEN \E t \in ClockReadings : HandleSendMessage(inputValue, t)
       ELSE UNCHANGED vars

\* a call whose handleSendMessage has returned: its frame is gone, and the
\* program keeps no trace of how generateAssistantResponse was settled
Returned == [status |-> "returned"]

\* the catch and finally blocks of handleSendMessage
CatchError(i) ==
  /\ i \in DOMAIN calls
  /\ calls[i].status = "rejected"
  /\ \E t \in ClockReadings :
       /\ messages' = Append(messages, ErrorMsg(t))
       /\ now' = t
  /\ isAiLoading' = FALSE
  /\ calls' = [calls EXCEPT ![i] = Returned]
  /\ UNCHANGED <<book, currentPage, storage, apiKey, parsing, isLoading, error, viewed, readerRefs>>

\* A provider round trip takes longer than one clock unit: when the
\* provider answers, the clock has passed the reading the request left at.
Arrival(c) == Max(now, c.sentAt + 1)

\* generateContentStream resolves with the response stream
StreamOpen(i) ==
  /\ NoMicrotask
  /\ i \in DOMAIN calls
  /\ calls[i].status = "connecting"
  /\ now' = Arrival(calls[i])
  /\ calls' = [calls EXCEPT ![i].status = "streaming"]
  /\ UNCHANGED <<book, currentPage, messages, isAiLoading, storage, apiKey,
                 parsing, isLoading, error, viewed, readerRefs>>

\* one iteration of the for await loop
StreamChunk(i, text) ==
  /\ NoMicrotask
  /\ i \in DOMAIN calls
  /\ calls[i].status = "streaming"
  /\ Len(calls[i].fullText) < MaxChunks
  /\ LET fullText == calls[i].fullText \o text
     IN /\ calls' = [calls EXCEPT ![i].fullText = IF text # <<>> THEN fullText ELSE @]
        /\ messages' = IF text # <<>>
                         THEN OnChunk(messages, calls[i].assistantMsgId, fullText)
                         ELSE messages
  /\ UNCHANGED <<book, currentPage, isAiLoading, storage, apiKey, now,
                 parsing, isLoading, error, viewed, readerRefs>>

\* the stream ends: generateAssistantResponse returns fullText, and
\* handleSendMessage finishes the turn and runs its finally block
StreamEnd(i) ==
  /\ NoMicrotask
  /\ i \in DOMAIN calls
  /\ calls[i].status = "streaming"
  /\ calls' = [calls EXCEPT ![i] = Returned]
  /\ messages' = FinishStreaming(messages, calls[i].assistantMsgId)
  /\ isAiLoading' = FALSE
  /\ UNCHANGED <<book, currentPage, storage, apiKey, now, parsing, isLoading, error, viewed, readerRefs>>

\* the provider call or the stream throws: the catch block of
\* generateAssistantResponse returns the fixed text, and handleSendMessage
\* goes on as after a normal return
ProviderError(i) ==
  /\ NoMicrotask
  /\ i \in DOMAIN calls
  /\ InFlight(calls[i])
  /\ now' = Arrival(calls[i])
  /\ calls' = [calls EXCEPT ![i] = Returned]
  /\ messages' = FinishStreaming(messages, calls[i].assistantMsgId)
  /\ isAiLoading' = FALSE
  /\ UNCHANGED <<book, currentPage, storage, apiKey, parsing, isLoading, error, viewed, readerRefs>>

\* ------------------------------------------------------------------- Next
\* step is taken while the second run is not followed
OneRun(step) == step /\ UNCHANGED twin

Next ==
  \/ OneRun(\E f \in Files : HandleFile(f))
  \/ OneRun(\E f \in Files : ParseDone(f))
  \/ OneRun(HandlePrev)
  \/ OneRun(HandleNext)
  \/ OneRun(\E pageInput \in PageInputs : HandlePageSubmit(pageInput))
  \/ OneRun(\E k \in 1..MaxPages : HandleTocClick(k))
  \/ OneRun(HandleBackToHome)
  \/ OneRun(\E inputValue \in ChatInputs : HandleSubmit(inputValue))
  \/ OneRun(\E i \in 1..MaxCalls : CatchError(i))
  \/ OneRun(\E i \in 1..MaxCalls : StreamOpen(i))
  \/ OneRun(\E i \in 1..MaxCalls, text \in ChunkTexts : StreamChunk(i, text))
  \/ OneRun(\E i \in 1..MaxCalls : StreamEnd(i))
  \/ OneRun(\E i \in 1..MaxCalls : ProviderError(i))

Spec == Init /\ [][Next]_vars

\* the reader opens, reads and closes documents and never uses the chat
NextUpload ==
  \/ OneRun(\E f \in UploadFiles : HandleFile(f))
  \/ OneRun(\E f \in UploadFiles : ParseDone(f))
  \/ OneRun(HandlePrev)
  \/ OneRun(HandleNext)
  \/ OneRun(\E pageInput \in PageInputs : HandlePageSubmit(pageInput))
  \/ OneRun(\E k \in 1..MaxPages : HandleTocClick(k))
  \/ OneRun(HandleBackToHome)

SpecUpload == Init /\ [][NextUpload]_vars

\* the reader also turns pages by wheel and by touch
NextReader ==
  \/ NextUpload
  \/ OneRun(\E el \in ScrollStates, deltaY \in WheelDeltas, e \in EventElapsed : HandleWheel(el, deltaY, now + e))
  \/ OneRun(\E clientY \in TouchYs : HandleTouchStart(clientY))
  \/ OneRun(\E el \in ScrollStates, currentY \in TouchYs, e \in EventElapsed : HandleTouchMove(el, currentY, now + e))
  \/ OneRun(HandleTouchEnd)

SpecReader == Init /\ [][NextReader]_vars

\* ---- two runs side by side
\* The second run receives the same events at the same times on a document
\* that agrees with the first run's document on every page but the last.
\* What does not depend on the page texts (page index, flags, ids, stored
\* progress) is the same in both runs and is kept once.  The generator is a
\* function of its request: where the two requests are equal it yields the
\* same chunk in both runs, where they differ the chunks are chosen freely.
\* One reading session is followed, in which no two requests of a run are
\* equal, because each request embeds the turns of the requests before it.
TwinFiles == {f \in Files : f.container = "pdf"}

TwinContent(content) ==
  IF Len(content) < 2 THEN content
  ELSE [content EXCEPT ![Len(content)] = <<"T">>]

TwinParseDone(f) ==
  /\ ParseDone(f)
  /\ twin' = IF book' # <<>>
               THEN [content |-> TwinContent(book'[1].content), messages |-> messages',
                     request |-> <<>>, fullText |-> <<>>]
               ELSE twin

TwinHandleSubmit(inputValue) ==
  /\ HandleSubmit(inputValue)
  /\ twin' = IF Len(calls') = Len(calls) THEN twin
             ELSE LET userMsg == messages'[Len(messages') - 1]
                      placeholder == messages'[Len(messages')]
                      history == CallHistory(twin.messages, userMsg)
                      page == CallPage(currentPage)
                  IN [content |-> twin.content,
                      messages |-> twin.messages \o <<userMsg, placeholder>>,
                      request |-> IF apiKey
                                    THEN <<BuildRequest(history, twin.content, page)>>
                                    ELSE <<>>,
                      fullText |-> <<>>]

TwinCatchError(i) ==
  /\ CatchError(i)
  /\ twin' = [twin EXCEPT !.messages = Append(@, messages'[Len(messages')])]

TwinStreamChunk(i, text, twinText) ==
  /\ StreamChunk(i, text)
  /\ Len(twin.fullText) < MaxChunks
  /\ twin.request = calls[i].request => twinText = text
  /\ LET fullText == twin.fullText \o twinText
     IN twin' = IF twinText = <<>> THEN twin
                ELSE [twin EXCEPT !.fullText = fullText,
                                  !.messages = OnChunk(@, calls[i].assistantMsgId, fullText)]

TwinStreamEnd(i) ==
  /\ StreamEnd(i)
  /\ twin' = [twin EXCEPT !.messages = FinishStreaming(@, calls[i].assistantMsgId),
                           !.request = <<>>, !.fullText = <<>>]

TwinProviderError(i) ==
  /\ ProviderError(i)
  /\ twin' = [twin EXCEPT !.messages = FinishStreaming(@, calls[i].assistantMsgId),
                           !.request = <<>>, !.fullText = <<>>]

NextTwin ==
  \/ OneRun(\E f \in TwinFiles : HandleFile(f))
  \/ \E f \in TwinFiles : TwinParseDone(f)
  \/ OneRun(HandlePrev)
  \/ OneRun(HandleNext)
  \/ OneRun(\E pageInput \in PageInputs : HandlePageSubmit(pageInput))
  \/ OneRun(\E k \in 1..MaxPages : HandleTocClick(k))
  \/ \E inputValue \in ChatInputs : TwinHandleSubmit(inputValue)
  \/ \E i \in 1..MaxCalls : TwinCatchError(i)
  \/ OneRun(\E i \in 1..MaxCalls : StreamOpen(i))
  \/ \E i \in 1..MaxCalls, text \in ChunkTexts, twinText \in ChunkTexts :
       TwinStreamChunk(i, text, twinText)
  \/ \E i \in 1..MaxCalls : TwinStreamEnd(i)
  \/ \E i \in 1..MaxCalls : TwinProviderError(i)

SpecTwin == Init /\ [][NextTwin]_vars

\* one file is under parse on the upload screen, and its parse settles
InitParser ==
  /\ book = <<>>
  /\ currentPage = 0
  /\ messages = <<>>
  /\ isAiLoading = FALSE
  /\ storage = [n \in FileNames |-> <<>>]
  /\ apiKey \in BOOLEAN
  /\ now = StartTime
  /\ calls = <<>>
  /\ parsing \in {<<[file |-> f, mounted |-> TRUE, latest |-> TRUE]>> : f \in ParserFiles}
  /\ isLoading = TRUE
  /\ error = <<>>
  /\ viewed = {}
  /\ lastNavigationTime = 0
  /\ touchStartY = <<>>
  /\ twin = NoTwin

NextParser == OneRun(\E f \in ParserFiles : ParseDone(f))

SpecParser == InitParser /\ [][NextParser]_vars

\* ============================================================== properties
HasRequest(c) == InFlight(c) /\ c.request # <<>>

\* the 0-based indices of the pages of bookContext whose text occurs in text
PagesIn(bookContext, text) ==
  {k - 1 : k \in {j \in 1..Len(bookContext) : Occurs(bookContext[j], text)}}

\* this step is an accepted submit: handleSendMessage was invoked
Submitted == Len(calls') = Len(calls) + 1

NewCall == calls'[Len(calls')]

\* this step opens or closes a reading session
SessionStep ==
  \/ book' = <<>>
  \/ Len(parsing') < Len(parsing)

\* C1: the context of a request sent for page index p holds the text of
\* every page 0..p of the document and of no page after p.
C1_ContextIsPagesUpToCurrent ==
  \A i \in DOMAIN calls :
    HasRequest(calls[i]) =>
      PagesIn(calls[i].bookContext, calls[i].request[1].systemInstruction)
        = {k \in 0..(Len(calls[i].bookContext) - 1) : k <= calls[i].currentPage}

C1_Witness ==
  \E i \in DOMAIN calls :
    /\ HasRequest(calls[i])
    /\ calls[i].currentPage = 0
    /\ Len(calls[i].bookContext) = MaxPages
    /\ Occurs(<<"[Page ", "1", "]: ", "A">>, calls[i].request[1].systemInstruction)
    /\ ~Occurs(<<"B">>, calls[i].request[1].systemInstruction)

C3_OneRequestOutstanding ==
  /\ [](Cardinality({i \in DOMAIN calls : InFlight(calls[i])}) <= 1)
  /\ [][isAiLoading =>
          /\ Len(calls') = Len(calls)
          /\ Cardinality({k \in DOMAIN messages' : messages'[k].role = "user"})
               <= Cardinality({k \in DOMAIN messages : messages[k].role = "user"})]_vars

C3_Witness ==
  /\ HasBook
  /\ isAiLoading
  /\ Len(calls) < MaxCalls
  /\ Cardinality({i \in DOMAIN calls : InFlight(calls[i])}) = 1
  /\ \E k \in DOMAIN messages : IsStreamingTurn(messages[k])

\* C4 as stated: when a request fails, the paired assistant turn ends with
\* the fixed fallback text and isStreaming false, the loading flag is
\* cleared and no new call is made.  A call that returns before its stream
\* was opened has failed in the provider call.
C4_FailureShowsFallback ==
  [][\A i \in DOMAIN calls :
       (calls[i].status = "connecting" /\ calls'[i].status = "returned") =>
         /\ isAiLoading' = FALSE
         /\ Len(calls') = Len(calls)
         /\ \A k \in DOMAIN messages' :
              messages'[k].id = calls[i].assistantMsgId =>
                /\ messages'[k].content \in {SorryText, TroubleText}
                /\ ~IsStreamingTurn(messages'[k])]_vars

\* the prompt the claim describes: the last 6 turns that precede the new
\* user turn, labelled, then the new user turn's text
ClaimedPrompt(prior, text) ==
  LET kept == SliceLast(SelectSeq(prior, LAMBDA m : m.role # "system"), 6)
  IN <<"\n">>
     \o Join([k \in 1..Len(kept) |-> <<RoleLabel(kept[k]), ": ">> \o kept[k].content],
             <<"\n">>)
     \o <<"\n", "User", ": ">> \o text \o <<"\n", "Assistant", ":", "\n">>

\* C5 as stated: the prompt of a submit holds the (at most 6) most recent
\* turns that precede the new user turn, oldest first, and then the new
\* user turn's text.
C5_PromptIsPriorWindowThenText ==
  [][(Submitted /\ HasRequest(NewCall)) =>
       NewCall.request[1].finalPrompt
         = ClaimedPrompt(messages, messages'[Len(messages) + 1].content)]_vars

\* C6: while a stream is being consumed, the paired assistant turn's text is
\* the text accumulated from the chunks received so far, and a step that
\* changes it extends it by one non-empty chunk: the snapshot replaces the
\* text and is not concatenated onto it.
C6_TextIsCumulative ==
  /\ [](\A i \in DOMAIN calls :
         calls[i].status = "streaming" =>
           \A k \in DOMAIN messages :
             messages[k].id = calls[i].assistantMsgId =>
               messages[k].content = calls[i].fullText)
  /\ [][\A i \in DOMAIN calls :
          (calls[i].status = "streaming" /\ calls'[i].status = "streaming") =>
            \A k \in (DOMAIN messages) \cap (DOMAIN messages') :
              (messages[k].id = calls[i].assistantMsgId
                 /\ messages'[k].content # messages[k].content) =>
                \E text \in ChunkTexts \ {<<>>} :
                  messages'[k].content = messages[k].content \o text]_vars

C6_Witness ==
  \E i \in DOMAIN calls :
    /\ calls[i].status = "streaming"
    /\ Len(calls[i].fullText) >= 2
    /\ \E k \in DOMAIN messages :
         /\ messages[k].id = calls[i].assistantMsgId
         /\ Len(messages[k].content) >= 2

\* C7: an accepted submit is made with the loading flag clear, sets it, and
\* appends a user turn with the submitted text and then an assistant turn
\* with isStreaming true and empty text.
C7_SubmitAppendsPair ==
  [][Submitted =>
       /\ ~isAiLoading
       /\ isAiLoading'
       /\ Len(messages') = Len(messages) + 2
       /\ SubSeq(messages', 1, Len(messages)) = messages
       /\ LET u == messages'[Len(messages) + 1]
              a == messages'[Len(messages) + 2]
          IN /\ u.role = "user"
             /\ u.content \in ChatInputs
             /\ Trim(u.content) # <<>>
             /\ a.role = "assistant"
             /\ IsStreamingTurn(a)
             /\ a.content = <<>>]_vars

C7_Witness ==
  /\ isAiLoading
  /\ Len(messages) >= 3
  /\ messages[Len(messages) - 1].role = "user"
  /\ messages[Len(messages)].role = "assistant"
  /\ IsStreamingTurn(messages[Len(messages)])
  /\ messages[Len(messages)].content = <<>>

\* C8: when a stream ends the paired assistant turn has isStreaming false
\* and keeps the last snapshot as its text, and the loading flag is cleared.
C8_CompletionFinalizes ==
  [][\A i \in DOMAIN calls :
       (calls[i].status = "streaming" /\ calls'[i].status = "returned") =>
         /\ isAiLoading' = FALSE
         /\ \A k \in DOMAIN messages' :
              messages'[k].id = calls[i].assistantMsgId =>
                /\ "isStreaming" \in DOMAIN messages'[k]
                /\ messages'[k].isStreaming = FALSE
                /\ messages'[k].content = calls[i].fullText]_vars

C8_Witness ==
  /\ ~isAiLoading
  /\ Len(calls) = 1
  /\ calls[1].status = "returned"
  /\ Len(messages) = 3
  /\ messages[3].role = "assistant"
  /\ "isStreaming" \in DOMAIN messages[3]
  /\ ~messages[3].isStreaming
  /\ messages[3].content # <<>>

\* C9: a submit embeds the pages up to the page index that is current when
\* it is made; afterwards the request of a call in flight never changes, and
\* a step that changes the page starts no call and changes no turn of the
\* session.
C9_ContextFromPageAtSubmit ==
  [][/\ (Submitted /\ HasRequest(NewCall)) =>
          /\ NewCall.currentPage = currentPage
          /\ PagesIn(TheBook.content, NewCall.request[1].systemInstruction)
               = {k \in 0..(TheBook.totalPages - 1) : k <= currentPage}
     /\ \A i \in DOMAIN calls :
          (HasRequest(calls[i]) /\ InFlight(calls'[i])) =>
            calls'[i].request = calls[i].request
     /\ (currentPage' # currentPage) =>
          /\ Len(calls') = Len(calls)
          /\ (messages' = messages \/ SessionStep)]_vars

C9_Witness ==
  \E i \in DOMAIN calls :
    /\ HasRequest(calls[i])
    /\ HasBook
    /\ TheBook.content = calls[i].bookContext
    /\ \E k \in DOMAIN messages : messages[k].id = calls[i].assistantMsgId
    /\ currentPage > calls[i].currentPage
    /\ Len(messages) >= 5

\* C10: inside a reading session turns are only appended; a user turn never
\* changes and a turn that is not streaming never changes.
C10_TurnsAppendOnly ==
  [][(HasBook /\ ~SessionStep) =>
       /\ Len(messages') >= Len(messages)
       /\ \A k \in DOMAIN messages :
            /\ messages'[k].id = messages[k].id
            /\ messages'[k].role = messages[k].role
            /\ (messages[k].role = "user" => messages'[k] = messages[k])
            /\ (~IsStreamingTurn(messages[k]) => messages'[k] = messages[k])
            /\ (messages'[k].content # messages[k].content
                  => IsStreamingTurn(messages[k]))]_vars

C10_Witness ==
  \E k, j \in DOMAIN messages :
    /\ k < j
    /\ messages[k].role = "assistant"
    /\ messages[k].id # <<"welcome">>
    /\ "isStreaming" \in DOMAIN messages[k]
    /\ ~messages[k].isStreaming
    /\ IsStreamingTurn(messages[j])
    /\ messages[j].content # <<>>

\* the k-th invocation of handleFile hands its book to handleBookLoaded
Delivered(k) ==
  /\ ParseFile(parsing[k].file).ok
  /\ parsing' = Unmounted(Without(k))
  /\ book' = <<ParseFile(parsing[k].file).book>>

\* C11 as stated: when a file is submitted while another is being parsed,
\* the earlier parse's result is never delivered: every book handed to the
\* viewer comes from the invocation of handleFile that was started last.
C11_LastSubmissionWins ==
  [][\A k \in DOMAIN parsing : Delivered(k) => parsing[k].latest]_vars

\* a call in flight whose session is gone: its placeholder turn is in no
\* turn list any more
Orphaned(c) ==
  /\ InFlight(c)
  /\ \A k \in DOMAIN messages : messages[k].id # c.assistantMsgId

\* C12 as stated: after the session of a call in flight is torn down, the
\* stream delivers no further increment, and no step of the old call
\* changes a turn list.
C12_TeardownStopsStream ==
  [][\A i \in DOMAIN calls :
       Orphaned(calls[i]) =>
         /\ InFlight(calls'[i]) => calls'[i].fullText = calls[i].fullText
         /\ calls'[i] # calls[i] => messages' = messages]_vars

\* C13: the page index of an open document is the value stored under its
\* file name, and a load restores the page index that was stored under the
\* file name of the loaded document, or 0 when nothing was stored.
C13_ProgressRoundTrip ==
  /\ [](HasBook => storage[TheBook.fileName] = ToStr(currentPage))
  /\ [][\A k \in DOMAIN parsing :
          Delivered(k) =>
            LET key == ParseFile(parsing[k].file).book.fileName
            IN /\ storage[key] = <<>> => currentPage' = 0
               /\ \A n \in 0..MaxPages :
                    storage[key] = ToStr(n) => currentPage' = n]_vars

C13_Witness ==
  /\ HasBook
  /\ currentPage = 1
  /\ viewed = {1}
  /\ messages = <<WelcomeMsg(TheBook.title)>>

\* C14 as stated: while a document is open, the current page index and the
\* progress stored under its file name are page indices of that document.
C14_PageInRange ==
  HasBook =>
    /\ 0 <= currentPage
    /\ currentPage < TheBook.totalPages
    /\ storage[TheBook.fileName] # <<>>
    /\ 0 <= ParseInt(storage[TheBook.fileName])
    /\ ParseInt(storage[TheBook.fileName]) < TheBook.totalPages

\* ---- the parser run on one file
TheFile == parsing[1].file

\* this step is the parse of TheFile resolving with a book
Parsed == parsing # <<>> /\ Delivered(1)

\* C15 as stated: every document the parser returns has at least one page
\* and a page count of at least 1.
C15_AtLeastOnePage ==
  HasBook => (TheBook.totalPages >= 1 /\ Len(TheBook.content) >= 1)

\* C16: every document the parser returns has as many pages as its page
\* count says; an EPUB document has as many render units as pages, and
\* page i and render unit i come from the same member.
C16_CountsAgree ==
  /\ [](HasBook =>
         /\ TheBook.totalPages = Len(TheBook.content)
         /\ TheBook.fileType = "epub" => Len(TheBook.renderData) = Len(TheBook.content))
  /\ [][(Parsed /\ book'[1].fileType = "epub") =>
          \/ /\ \A k \in DOMAIN TheFile.members :
                  IsMarkupPath(TheFile.members[k].path) => ~HasContent(TheFile.members[k])
             /\ Len(book'[1].content) = 1
          \/ \A i \in DOMAIN book'[1].content :
               \E k \in DOMAIN TheFile.members :
                 /\ book'[1].renderData[i] = TheFile.members[k].body
                 /\ book'[1].content[i] = Trim(CollapseSpaces(TheFile.members[k].text))]_vars

C16_Witness ==
  /\ HasBook
  /\ TheBook.fileType = "epub"
  /\ TheBook.totalPages = 3
  /\ Len(TheBook.renderData) = 3
  /\ TheBook.content = << <<"Y", " ", "Z">>, <<"X">>, <<>> >>

RECURSIVE ClaimedOutline(_, _)
\* the outline the claim describes: a node is entered when its target
\* resolves to a page, and the children of every node are walked one level
\* deeper
ClaimedOutline(items, level) ==
  IF items = <<>> THEN <<>>
  ELSE (IF Head(items).dest = "page"
          THEN <<[title |-> Head(items).title, page |-> Head(items).page,
                  level |-> level]>>
          ELSE <<>>)
       \o ClaimedOutline(Head(items).items, level + 1)
       \o ClaimedOutline(Tail(items), level)

\* C17 as stated: in the PDF outline walk a node that does not resolve to a
\* page, or is an external link, is left out, and the children of every
\* node are walked: each resolvable child is entered one level deeper.
C17_OutlineWalk ==
  [][(Parsed /\ book'[1].fileType = "pdf") =>
       book'[1].toc = ClaimedOutline(TheFile.outline, 0)]_vars

\* the markup members of f that have text after trimming or an image
Survivors(f) ==
  {m \in {f.members[k] : k \in DOMAIN f.members} :
     IsMarkupPath(m.path) /\ (Trim(m.text) # <<>> \/ m.images >= 1)}

\* the number of survivors whose path sorts before the path of m
RankOf(m, f) == Cardinality({n \in Survivors(f) : Precedes(n.path, m.path)})

\* survivor m is page RankOf(m, f) of document b
IsPageOf(m, f, b) ==
  /\ RankOf(m, f) + 1 \in DOMAIN b.content
  /\ b.content[RankOf(m, f) + 1] = Trim(CollapseSpaces(m.text))
  /\ b.renderData[RankOf(m, f) + 1] = m.body

\* C18 as stated: the pages of an EPUB document are its surviving members
\* in member order, with indices contiguous from 0, and the page count is
\* the number of surviving members.
C18_PagesAreSurvivors ==
  [][(Parsed /\ book'[1].fileType = "epub") =>
       /\ book'[1].totalPages = Cardinality(Survivors(TheFile))
       /\ \A m \in Survivors(TheFile) : IsPageOf(m, TheFile, book'[1])]_vars

\* C18 amended: as stated when a member survives; when none survives the
\* document holds the one sentinel page and its page count is 1.
C18_PagesAreSurvivorsOrSentinel ==
  [][(Parsed /\ book'[1].fileType = "epub") =>
       /\ \A m \in Survivors(TheFile) : IsPageOf(m, TheFile, book'[1])
       /\ Survivors(TheFile) # {} =>
            book'[1].totalPages = Cardinality(Survivors(TheFile))
       /\ Survivors(TheFile) = {} =>
            /\ book'[1].totalPages = 1
            /\ book'[1].content = <<<<"No text content found.">>>>]_vars

C18_Witness ==
  /\ HasBook
  /\ TheBook.fileType = "epub"
  /\ TheBook.totalPages = 2
  /\ TheBook.content = << <<"Y", " ", "Z">>, <<"X">> >>
  /\ parsing = <<>>

\* the content type or the extension of f identifies a PDF, an EPUB
NamedPdf(f) == f.type = "application/pdf" \/ EndsWith(f.name, <<".pdf">>)

NamedEpub(f) == f.type = "application/epub+zip" \/ EndsWith(f.name, <<".epub">>)

\* this step is the parse of TheFile settling
Settles == parsing # <<>> /\ parsing' = <<>>

\* C19 as stated: a file is rejected as unsupported exactly when neither
\* its content type nor its extension identifies a PDF or an EPUB; a file
\* identified as PDF only is parsed as PDF, one identified as EPUB only is
\* parsed as EPUB.
C19_UnsupportedIffUnknownKind ==
  [][Settles =>
       /\ (error' = UnsupportedText) <=> ~(NamedPdf(TheFile) \/ NamedEpub(TheFile))
       /\ (NamedPdf(TheFile) /\ ~NamedEpub(TheFile) /\ TheFile.container = "pdf") =>
            (book' # <<>> /\ book'[1].fileType = "pdf")
       /\ (NamedEpub(TheFile) /\ ~NamedPdf(TheFile) /\ TheFile.container = "zip") =>
            (book' # <<>> /\ book'[1].fileType = "epub")]_vars

\* the k-th invocation of handleFile ends in its catch block
Failed(k) == ~ParseFile(parsing[k].file).ok /\ parsing' = Without(k)

\* C20 as stated: a failed open delivers no document, leaves the open
\* document, the page index, the stored progress and the turn list as they
\* are, shows an error message and ends the loading state of the upload
\* screen.
C20_FailedOpenIsLocal ==
  [][\A k \in DOMAIN parsing :
       Failed(k) =>
         /\ book' = book
         /\ currentPage' = currentPage
         /\ storage' = storage
         /\ messages' = messages
         /\ error' # <<>>
         /\ isLoading' = FALSE]_vars

\* this step changes the page index of the document that stays open
PageChanged == HasBook /\ book' = book /\ currentPage' # currentPage

\* C21: while a document is open the value stored under its file name is
\* its current page index; a step that changes the page index writes the
\* new index under that file name and changes the value of no other key.
C21_ProgressFollowsPage ==
  /\ [](HasBook => storage[TheBook.fileName] = ToStr(currentPage))
  /\ [][PageChanged =>
          /\ storage'[TheBook.fileName] = ToStr(currentPage')
          /\ \A n \in DOMAIN storage :
               n # TheBook.fileName => storage'[n] = storage[n]]_vars

C21_Witness ==
  /\ HasBook
  /\ TheBook.fileName = <<"a", ".pdf">>
  /\ currentPage = 0
  /\ storage[<<"a", ".pdf">>] = <<"0">>
  /\ storage[<<"b", ".epub">>] = <<"0">>
  /\ 1 \in viewed

RECURSIVE OutlineNodes(_)
\* the nodes of an outline tree
OutlineNodes(items) ==
  IF items = <<>> THEN {}
  ELSE {Head(items)} \cup OutlineNodes(Head(items).items) \cup OutlineNodes(Tail(items))

\* C22: every outline entry of a document points to a page of the
\* document, and every entry of a PDF document stands for an outline node
\* whose destination resolves to the page of the entry: a node that
\* resolves to no page yields no entry.
C22_OutlineEntriesInRange ==
  /\ [](HasBook =>
         \A k \in DOMAIN TheBook.toc :
           0 <= TheBook.toc[k].page /\ TheBook.toc[k].page < TheBook.totalPages)
  /\ [][(Parsed /\ book'[1].fileType = "pdf") =>
          \A k \in DOMAIN book'[1].toc :
            \E node \in OutlineNodes(TheFile.outline) :
              /\ node.dest = "page"
              /\ node.title = book'[1].toc[k].title
              /\ node.page = book'[1].toc[k].page]_vars

C22_Witness ==
  /\ HasBook
  /\ TheBook.fileType = "pdf"
  /\ TheBook.totalPages = 2
  /\ TheBook.toc = << [title |-> <<"g">>, page |-> 0, level |-> 2],
                      [title |-> <<"z">>, page |-> 1, level |-> 0] >>

\* the file name of a member path without its last extension
Stem(path) ==
  LET name == LastSegment(path)
      dots == {k \in DOMAIN name : name[k] = "."}
  IN IF dots = {} \/ name[Len(name)] = "." THEN name
     ELSE SubSeq(name, 1, (CHOOSE k \in dots : \A j \in dots : j <= k) - 1)

\* the title the claim gives the n-th page, made from member m; the text
\* of the title element is taken without the white space around it, and a
\* title of white space only counts as empty
ClaimedTitle(m, n) ==
  IF Trim(m.title) # <<>> THEN Trim(m.title)
  ELSE IF Stem(m.path) # <<>> THEN Stem(m.path)
  ELSE <<"Chapter ">> \o ToStr(n)

\* C23: the outline of an EPUB document has one entry per surviving member,
\* in page order: entry i points to page i at level 0 and is titled by the
\* member's title text, else by the stem of its file name, else "Chapter n"
\* with n the 1-based number of the page.
C23_EpubOutlinePerPage ==
  [][(Parsed /\ book'[1].fileType = "epub") =>
       /\ Len(book'[1].toc) = Cardinality(Survivors(TheFile))
       /\ \A m \in Survivors(TheFile) :
            book'[1].toc[RankOf(m, TheFile) + 1]
              = [title |-> ClaimedTitle(m, RankOf(m, TheFile) + 1),
                 page |-> RankOf(m, TheFile),
                 level |-> 0]]_vars

C23_Witness ==
  /\ HasBook
  /\ TheBook.fileType = "epub"
  /\ TheBook.toc = << [title |-> <<"Chapter ", "1">>, page |-> 0, level |-> 0],
                      [title |-> <<"t">>, page |-> 1, level |-> 0],
                      [title |-> <<"3">>, page |-> 2, level |-> 0] >>

\* the block of the page with 0-based index k: its 1-based label, its text
Block(pages, k) == <<"[Page ">> \o ToStr(k + 1) \o <<"]: ">> \o pages[k + 1]

RECURSIVE ClaimedContext(_, _)
\* the blocks of the pages 0..p in ascending order with a blank line
\* between two blocks
ClaimedContext(pages, p) ==
  IF p = 0 THEN Block(pages, 0)
  ELSE ClaimedContext(pages, p - 1) \o <<"\n\n">> \o Block(pages, p)

\* C24: the context embedded in a request for page index p of a document
\* is the blocks of its pages 0..p in ascending order, joined by a blank
\* line; it is determined by the pages and p alone.
C24_ContextIsBlocksUpToPage ==
  \A i \in DOMAIN calls :
    (HasRequest(calls[i]) /\ calls[i].currentPage \in 0..(Len(calls[i].bookContext) - 1)) =>
      calls[i].request[1].systemInstruction
        = InstructionText(calls[i].currentPage,
                          ClaimedContext(calls[i].bookContext, calls[i].currentPage))

C24_Witness ==
  \E i \in DOMAIN calls :
    /\ HasRequest(calls[i])
    /\ calls[i].currentPage = 1
    /\ Len(messages) >= 5
    /\ Occurs(<<"[Page ", "1", "]: ", "A", "\n\n", "[Page ", "2", "]: ", "B">>,
              calls[i].request[1].systemInstruction)

\* C25 as stated: while the loading flag is clear no turn of the turn list
\* is marked as streaming.
C25_IdleHasNoStreamingTurn ==
  ~isAiLoading => \A k \in DOMAIN messages : ~IsStreamingTurn(messages[k])

\* C26 as stated: while a document is open and the loading flag is clear,
\* the turn list is the welcome turn followed by pairs of a user turn and
\* an assistant turn: every submit has added two turns and no more.
C26_TwoTurnsPerSubmit ==
  (HasBook /\ ~isAiLoading) =>
    /\ Len(messages) % 2 = 1
    /\ \A k \in DOMAIN messages :
         messages[k].role = IF k % 2 = 0 THEN "user" ELSE "assistant"

\* C27 as stated: the turns of the turn list have pairwise distinct ids.
C27_TurnIdsDistinct ==
  \A k, j \in DOMAIN messages : k # j => messages[k].id # messages[j].id

\* the page index is a page index of the open document
PageInRange(page) == 0 <= page /\ page < TheBook.totalPages

\* this step is a page turn by wheel or by touch
WheelOrTouchStep ==
  \/ \E el \in ScrollStates, deltaY \in WheelDeltas, e \in EventElapsed :
       HandleWheel(el, deltaY, now + e)
  \/ \E el \in ScrollStates, currentY \in TouchYs, e \in EventElapsed :
       HandleTouchMove(el, currentY, now + e)

\* C28: from a state where the page index is inside the document, a step
\* that keeps the document open leaves the page index inside the document;
\* previous and next leave it or change it by exactly one backward and
\* forward, and a wheel or touch page turn changes it by at most one.
C28_NavigationStaysInRange ==
  [][(HasBook /\ PageInRange(currentPage) /\ book' = book) =>
       /\ 0 <= currentPage' /\ currentPage' < TheBook.totalPages
       /\ HandlePrev => currentPage' \in {currentPage, currentPage - 1}
       /\ HandleNext => currentPage' \in {currentPage, currentPage + 1}
       /\ WheelOrTouchStep =>
            currentPage' \in {currentPage - 1, currentPage, currentPage + 1}]_vars

C28_Witness ==
  /\ HasBook
  /\ TheBook.totalPages = MaxPages
  /\ currentPage = MaxPages - 1
  /\ lastNavigationTime = now
  /\ now >= StartTime + 2 * DebounceTime + 2
  /\ touchStartY = <<>>

\* C29 as stated: a step that opens a document leaves the turn list with
\* the welcome turn only and the loading flag clear, so that a submit is
\* accepted; and a call that returns clears the loading flag of no other
\* call in flight.
C29_OpenStartsIdle ==
  [][/\ \A k \in DOMAIN parsing :
          Delivered(k) =>
            /\ messages' = <<WelcomeMsg(book'[1].title)>>
            /\ isAiLoading' = FALSE
     /\ \A i \in DOMAIN calls :
          (InFlight(calls[i]) /\ ~InFlight(calls'[i])) =>
            \A j \in DOMAIN calls' : ~InFlight(calls'[j])]_vars

\* the index of the first page on which the two documents differ
FirstDifference == Len(TheBook.content) - 1

\* C30 as stated: a submit made on a page before the first page on which
\* the two documents differ builds the same request in both runs, whatever
\* pages the earlier submits of the session were made on.
C30_LaterPagesDoNotInterfere ==
  [][(Submitted /\ HasRequest(NewCall) /\ currentPage < FirstDifference) =>
       twin'.request = NewCall.request]_vars
====
